---- MODULE Spec2Model ----
(***************************************************************************)
(* Leaderboard server (src/server.js) and affiliate fetch client           *)
(* (src/src/affiliates.js).                                                *)
(*                                                                         *)
(* Eight specifications share the variables below:                        *)
(*   Spec        the refresh loop of server.js with its fetch client,      *)
(*               cache file, snapshot log and broadcast channel;           *)
(*   SpecFetch   the two fetch functions of affiliates.js called directly; *)
(*   SpecWindow  computeWindowed over bounded snapshot logs;               *)
(*   SpecBackoff fetchAffiliateRaw alone, with its waits between retries;  *)
(*   SpecLog     the snapshot log written line by line and replayed;       *)
(*   SpecServe   the server from startup: cache load, refresh cycles,      *)
(*               the contest window and the read endpoints;                *)
(*   SpecLive    the refresh loop under the assumption that every request  *)
(*               is answered or times out;                                 *)
(*   SpecExtend  computeWindowed over longer logs of one user.             *)
(*                                                                         *)
(* Time is Date.now() in abstract units.  A player record carries id and   *)
(* points; the display fields name and avatar take no part in any          *)
(* computation modelled here and are left out.                             *)
(***************************************************************************)
EXTENDS Integers, Sequences, FiniteSets, TLC

VARIABLES
    now,            \* Date.now()
    hasCreds,       \* which of APIKEY and CODE are set (affiliates.js:5-6)
    countdownEnd,   \* server.js:76, Null or a time
    contestStart,   \* server.js:67, Null or the time its ISO string denotes
    contestEnd,     \* server.js:68, Null or the time its ISO string denotes
    leaderboard,    \* server.js:63
    updatedAt,      \* server.js:64, Null or a time
    cacheFile,      \* content of CACHE_PATH, NoFile or [updatedAt, data]
    histFile,       \* lines of HIST_PATH, in file order
    emitted,        \* payloads of io.emit('leaderboard:update', ...) so far
    cyc,            \* refresh() invocations: position and pending request
    started,        \* number of refresh() invocations begun
    fin,            \* what the refresh() that returned last did
    cache,          \* affiliates.js:14, the TTL Map
    calls,          \* direct invocations of the fetch functions, in flight
    ret,            \* the direct invocation that returned last
    qStart, qEnd,   \* arguments of the last computeWindowed call
    qResult,        \* the value the last read operation returned
    qDone,          \* a read operation has ended and its caller holds qResult
    qOp,            \* which read operation that was
    threw           \* it ended by throwing instead of returning

vars == <<now, hasCreds, countdownEnd, contestStart, contestEnd, leaderboard,
          updatedAt, cacheFile, histFile, emitted, cyc, started, fin, cache,
          calls, ret, qStart, qEnd, qResult, qDone, qOp, threw>>

contestVars == <<contestStart, contestEnd>>
serverVars == <<countdownEnd, contestStart, contestEnd, leaderboard, updatedAt,
                cacheFile, emitted, cyc, started>>
queryVars  == <<qStart, qEnd, qResult, qDone, qOp, threw>>

----------------------------------------------------------------------------
(* Bounds *)

MaxTs   == 2      \* SpecWindow: snapshot timestamps and window bounds 0..MaxTs
MaxPts  == 2      \* SpecWindow: totals 0..MaxPts
MaxLen  == 2      \* SpecWindow: rows in the snapshot log
MaxTime   == 2    \* Spec: the clock runs over 0..MaxTime
MaxWager  == 1    \* Spec, SpecFetch: upstream totals 0..MaxWager
MaxCycles == 2    \* Spec: refresh() invocations in one run
MaxFetchTime == 1 \* SpecFetch: the clock runs over 0..MaxFetchTime
MaxCalls  == 3    \* SpecFetch: invocations of fetchAffiliate in one run
MaxRawCalls == 1  \* SpecFetch: invocations of fetchAffiliateRaw in one run
MaxBadLines == 1  \* SpecLog: lines of the log that are no snapshot rows
MaxServeCycles == 1 \* SpecServe, SpecLive: refresh() invocations in one run
MaxRetryAfter == 2 \* SpecFetch: seconds in a retry-after header
MaxExtendLen == 3 \* SpecExtend: rows in the snapshot log

CACHE_MS == 2     \* affiliates.js:12 (60000 ms), in clock units
MaxAttempts_OffByOne == 5 + 1
MaxAttempts == 5  \* affiliates.js:39
BACKOFF_CAP_MS  == 15000  \* affiliates.js:53
BACKOFF_BASE_MS == 600    \* affiliates.js:53
JITTER_MS       == 250    \* affiliates.js:54

Ids   == {"A", "B"}
IdSeq == <<"A", "B">>
Null  == -1

Max(a, b) == IF a >= b THEN a ELSE b
Min(a, b) == IF a <= b THEN a ELSE b

----------------------------------------------------------------------------
(* JavaScript Map: keys in insertion order plus their values *)

EmptyMap == [keys |-> <<>>, val |-> <<>>]

MapHas(m, k) == \E i \in 1..Len(m.keys) : m.keys[i] = k

MapGet(m, k) == m.val[CHOOSE i \in 1..Len(m.keys) : m.keys[i] = k]

MapSet(m, k, v) ==
    IF MapHas(m, k)
    THEN [m EXCEPT !.val[CHOOSE i \in 1..Len(m.keys) : m.keys[i] = k] = v]
    ELSE [keys |-> Append(m.keys, k), val |-> Append(m.val, v)]

(* Object.entries(P): the [id, pts] pairs of a row *)
RECURSIVE EntriesFrom(_, _)
EntriesFrom(P, i) ==
    IF i > Len(IdSeq) THEN <<>>
    ELSE IF IdSeq[i] \in DOMAIN P
         THEN <<[id |-> IdSeq[i], pts |-> P[IdSeq[i]]]>> \o EntriesFrom(P, i + 1)
         ELSE EntriesFrom(P, i + 1)

Entries(P) == EntriesFrom(P, 1)

----------------------------------------------------------------------------
(* readHistory: parse every line, sort by ts ascending (stable).  A line of
   the log is a snapshot row [ts, p], text that JSON.parse rejects (a
   truncated row, arbitrary bytes), or the text null, which JSON.parse
   accepts and which is no snapshot. *)

GarbageLine == [text |-> "garbage"]
NullLine    == [text |-> "null"]

IsRow(line) == "ts" \in DOMAIN line

(* server.js:150: out.push(JSON.parse(line)) inside try/catch; only a line
   that fails to parse is left out *)
ParsedLines_DropsTail(file) ==
    SelectSeq(SubSeq(file, 1, Len(file) - 1), LAMBDA line : line # GarbageLine)

ParsedLines(file) == SelectSeq(file, LAMBDA line : line # GarbageLine)

RECURSIVE InsertByTs(_, _)
InsertByTs(row, s) ==
    IF s = <<>> THEN <<row>>
    ELSE IF row.ts - s[Len(s)].ts >= 0
         THEN Append(s, row)
         ELSE Append(InsertByTs(row, SubSeq(s, 1, Len(s) - 1)), s[Len(s)])

RECURSIVE SortByTs(_)
SortByTs(s) ==
    IF s = <<>> THEN <<>>
    ELSE InsertByTs(s[Len(s)], SortByTs(SubSeq(s, 1, Len(s) - 1)))

(* server.js:152: the comparator (a, b) => a.ts - b.ts runs outside every
   try block and is called once there are two values to compare; reading .ts
   of null raises a TypeError *)
readHistoryThrows(file) ==
    LET out == ParsedLines(file) IN
    Len(out) >= 2 /\ \E i \in 1..Len(out) : out[i] = NullLine

readHistory(file) == SortByTs(ParsedLines(file))

----------------------------------------------------------------------------
(* computeWindowed *)

BeforeStart(t, startMs) == t < startMs

InWindow_NoEnd(t, startMs, endMs) == ~(t < startMs)

InWindow(t, startMs, endMs) == ~(t < startMs) /\ t <= endMs

(* server.js:168 *)
RECURSIVE SetAll(_, _, _)
SetAll(m, es, i) ==
    IF i > Len(es) THEN m
    ELSE SetAll(MapSet(m, es[i].id, es[i].pts), es, i + 1)

(* server.js:172 *)
RECURSIVE SetFirst(_, _, _)
SetFirst(m, es, i) ==
    IF i > Len(es) THEN m
    ELSE SetFirst(IF MapHas(m, es[i].id) THEN m
                  ELSE MapSet(m, es[i].id, es[i].pts), es, i + 1)

(* server.js:173-174 *)
RECURSIVE SetMax(_, _, _)
SetMax(m, es, i) ==
    IF i > Len(es) THEN m
    ELSE SetMax(IF ~MapHas(m, es[i].id) \/ es[i].pts > MapGet(m, es[i].id)
                THEN MapSet(m, es[i].id, es[i].pts)
                ELSE m, es, i + 1)

ScanSnap_LastInWindow(acc, snap, startMs, endMs) ==
    LET es == Entries(snap.p) IN
    IF BeforeStart(snap.ts, startMs)
    THEN [acc EXCEPT !.before = SetAll(acc.before, es, 1)]
    ELSE IF InWindow(snap.ts, startMs, endMs)
         THEN [acc EXCEPT !.firstIn = SetFirst(acc.firstIn, es, 1),
                          !.maxIn   = SetAll(acc.maxIn, es, 1)]
         ELSE acc

(* one iteration of the loop over hist, server.js:163-177 *)
ScanSnap(acc, snap, startMs, endMs) ==
    LET es == Entries(snap.p) IN
    IF BeforeStart(snap.ts, startMs)
    THEN [acc EXCEPT !.before = SetAll(acc.before, es, 1)]
    ELSE IF InWindow(snap.ts, startMs, endMs)
         THEN [acc EXCEPT !.firstIn = SetFirst(acc.firstIn, es, 1),
                          !.maxIn   = SetMax(acc.maxIn, es, 1)]
         ELSE acc

RECURSIVE ScanHist(_, _, _, _)
ScanHist(hist, i, startMs, endMs) ==
    IF i = 0
    THEN [before |-> EmptyMap, firstIn |-> EmptyMap, maxIn |-> EmptyMap]
    ELSE ScanSnap(ScanHist(hist, i - 1, startMs, endMs), hist[i], startMs, endMs)

(* new Set([...before.keys(), ...firstIn.keys(), ...maxIn.keys()]) *)
RECURSIVE Dedup(_)
Dedup(s) ==
    IF s = <<>> THEN <<>>
    ELSE LET front == Dedup(SubSeq(s, 1, Len(s) - 1)) IN
         IF \E i \in 1..Len(front) : front[i] = s[Len(s)]
         THEN front ELSE Append(front, s[Len(s)])

Baseline_FirstInPreferred(acc, id) ==
    IF MapHas(acc.firstIn, id) THEN MapGet(acc.firstIn, id)
    ELSE IF MapHas(acc.before, id) THEN MapGet(acc.before, id) ELSE 0

(* server.js:182 *)
Baseline(acc, id) ==
    IF MapHas(acc.before, id) THEN MapGet(acc.before, id)
    ELSE IF MapHas(acc.firstIn, id) THEN MapGet(acc.firstIn, id) ELSE 0

(* server.js:181-195 *)
RECURSIVE Collect(_, _, _)
Collect(acc, ids, i) ==
    IF i > Len(ids) THEN <<>>
    ELSE LET id == ids[i] IN
         IF ~MapHas(acc.maxIn, id) THEN Collect(acc, ids, i + 1)
         ELSE LET gain == Max(0, MapGet(acc.maxIn, id) - Baseline(acc, id)) IN
              IF gain > 0
              THEN <<[id |-> id, points |-> gain]>> \o Collect(acc, ids, i + 1)
              ELSE Collect(acc, ids, i + 1)

(* sort((a,b) => b.points - a.points), stable *)
RECURSIVE InsertByPointsDesc(_, _)
InsertByPointsDesc(r, s) ==
    IF s = <<>> THEN <<r>>
    ELSE IF s[Len(s)].points - r.points >= 0
         THEN Append(s, r)
         ELSE Append(InsertByPointsDesc(r, SubSeq(s, 1, Len(s) - 1)), s[Len(s)])

RECURSIVE SortByPointsDesc(_)
SortByPointsDesc(s) ==
    IF s = <<>> THEN <<>>
    ELSE InsertByPointsDesc(s[Len(s)], SortByPointsDesc(SubSeq(s, 1, Len(s) - 1)))

SortResults_AsCollected(results) == results

(* server.js:197: results.sort((a, b) => b.points - a.points) *)
SortResults(results) == SortByPointsDesc(results)

(* server.js:158-164: readHistory is called first; the loop then reads
   snap.ts of every value readHistory returned *)
computeWindowedThrows(file) ==
    \/ readHistoryThrows(file)
    \/ \E i \in 1..Len(ParsedLines(file)) : ParsedLines(file)[i] = NullLine

computeWindowed(file, startMs, endMs) ==
    LET hist == readHistory(file) IN
    IF Len(hist) = 0 THEN <<>>
    ELSE LET acc == ScanHist(hist, Len(hist), startMs, endMs)
             ids == Dedup(acc.before.keys \o acc.firstIn.keys \o acc.maxIn.keys)
         IN  SortResults(Collect(acc, ids, 1))

----------------------------------------------------------------------------
(* SpecWindow: computeWindowed applied to every bounded snapshot log *)

RowP    == UNION {[D -> 0..MaxPts] : D \in SUBSET Ids}
Rows    == [ts : 0..MaxTs, p : RowP]
Logs    == UNION {[1..n -> Rows] : n \in 0..MaxLen}

InitIdleServer ==
    /\ countdownEnd = Null
    /\ leaderboard = <<>>
    /\ updatedAt = Null
    /\ cacheFile = <<>>
    /\ emitted = <<>>
    /\ cyc = <<>>
    /\ started = 0
    /\ fin = <<>>
    /\ contestStart = Null
    /\ contestEnd = Null

InitIdleFetch ==
    /\ now = 0
    /\ hasCreds = [apikey |-> TRUE, code |-> TRUE]
    /\ cache = <<>>
    /\ calls = <<>>
    /\ ret = <<>>

InitIdleQuery ==
    /\ qStart = Null /\ qEnd = Null /\ qResult = <<>> /\ qDone = FALSE
    /\ qOp = "none" /\ threw = FALSE

InitWindow ==
    /\ InitIdleServer
    /\ InitIdleFetch
    /\ InitIdleQuery
    /\ histFile \in Logs

(* what the caller of computeWindowed gets: the result, or nothing when the
   call throws *)
WindowedOrNothing(file, s, e) ==
    IF computeWindowedThrows(file) THEN <<>> ELSE computeWindowed(file, s, e)

(* GET /api/leaderboard/range with a valid range, server.js:253-259; an
   exception of computeWindowed leaves the handler and the request is
   answered with an error *)
RangeQuery(s, e) ==
    /\ ~qDone
    /\ e >= s
    /\ qStart' = s /\ qEnd' = e
    /\ qResult' = WindowedOrNothing(histFile, s, e)
    /\ threw' = computeWindowedThrows(histFile)
    /\ qOp' = "range"
    /\ qDone' = TRUE
    /\ UNCHANGED <<now, hasCreds, histFile, fin, cache, calls, ret>>
    /\ UNCHANGED serverVars

(* res.json(...) sends the result; the handler's locals are gone *)
RangeRespond ==
    /\ qDone
    /\ qStart' = Null /\ qEnd' = Null /\ qResult' = <<>> /\ qDone' = FALSE
    /\ qOp' = "none" /\ threw' = FALSE
    /\ UNCHANGED <<now, hasCreds, histFile, fin, cache, calls, ret>>
    /\ UNCHANGED serverVars

NextWindow ==
    \/ \E s, e \in 0..MaxTs : RangeQuery(s, e)
    \/ RangeRespond

SpecWindow == InitWindow /\ [][NextWindow]_vars

----------------------------------------------------------------------------
(* The snapshot log as the claims describe it *)

RowIdx(u)       == {i \in 1..Len(histFile) : u \in DOMAIN histFile[i].p}
InWinIdx(u)     == {i \in RowIdx(u) : qStart <= histFile[i].ts /\ histFile[i].ts <= qEnd}
PreWinIdx(u)    == {i \in RowIdx(u) : histFile[i].ts < qStart}

(* row i is read after row j: later timestamp, or same timestamp and later line *)
Later(i, j) == \/ histFile[i].ts > histFile[j].ts
               \/ histFile[i].ts = histFile[j].ts /\ i >= j

LatestOf(S)   == CHOOSE i \in S : \A j \in S : Later(i, j)
EarliestOf(S) == CHOOSE i \in S : \A j \in S : Later(j, i)

PeakOf(u)     == CHOOSE m \in {histFile[i].p[u] : i \in InWinIdx(u)} :
                    \A i \in InWinIdx(u) : histFile[i].p[u] <= m
BaselineOf(u) == IF PreWinIdx(u) # {} THEN histFile[LatestOf(PreWinIdx(u))].p[u]
                 ELSE histFile[EarliestOf(InWinIdx(u))].p[u]
GainOf(u)     == Max(0, PeakOf(u) - BaselineOf(u))

EntriesFor(u) == {i \in 1..Len(qResult) : qResult[i].id = u}

C2_AbsentExcluded ==
    qDone => \A u \in Ids : InWinIdx(u) = {} => EntriesFor(u) = {}

(* the user has rows on both sides of the window, rising, none inside *)
C2_Witness ==
    /\ qDone
    /\ \E u \in Ids :
          /\ InWinIdx(u) = {}
          /\ \E i, j \in RowIdx(u) :
                /\ histFile[i].ts < qStart /\ histFile[j].ts > qEnd
                /\ histFile[i].p[u] < histFile[j].p[u]
          /\ EntriesFor(u) = {}


----------------------------------------------------------------------------
(* Fetch client, src/src/affiliates.js *)

(* cache key: the request URL, whose only varying part is lt = Date.now() at
   call time (affiliates.js:32-35, 66-69), plus the output shape *)
KeyOf(lt, shape) == <<lt, shape>>

(* ttlGet, affiliates.js:15: a hit unless the entry is missing or h.exp < now;
   an expired entry is deleted *)
ttlHit(c, k, t) == k \in DOMAIN c /\ ~(c[k].exp < t)

ttlGetCache(c, k, t) ==
    IF k \in DOMAIN c /\ c[k].exp < t
    THEN [x \in (DOMAIN c) \ {k} |-> c[x]]
    ELSE c

(* ttlSet, affiliates.js:16 *)
ttlSet(c, k, v, ms, t) ==
    [x \in (DOMAIN c) \cup {k} |-> IF x = k THEN [val |-> v, exp |-> t + ms] ELSE c[x]]

(* the environment sets both credentials, one of them, or none *)
Creds == [apikey : BOOLEAN, code : BOOLEAN]

CredsMissing_BothOnly(h) == ~h.apikey /\ ~h.code

(* affiliates.js:37, 71: !APIKEY || !CODE *)
CredsMissing(h) == ~h.apikey \/ ~h.code

(* upstream records and response bodies *)
RawRecord(u, w) == [uuid |-> u, wagered |-> w]

UpstreamData ==
    {<<>>}
    \cup {<<RawRecord("A", w)>> : w \in 1..MaxWager}
    \cup {<<RawRecord("A", w - 1), RawRecord("B", w)>> : w \in 1..MaxWager}

Bodies ==
    {[shape |-> sh, data |-> d] : sh \in {"array", "wrapped"}, d \in UpstreamData}
    \cup {[shape |-> "other", data |-> <<>>]}

(* 0 stands for a request without a response: network error or timeout *)
Statuses == {0, 200, 404, 429, 503}

Responses ==
    {[status |-> 200, body |-> b] : b \in Bodies}
    \cup {[status |-> s, body |-> [shape |-> "other", data |-> <<>>]] :
             s \in Statuses \ {200}}

(* affiliates.js:45-47, 78-80 *)
PayloadOf(body) ==
    IF body.shape = "array" THEN body.data
    ELSE IF body.shape = "wrapped" THEN body.data
    ELSE <<>>

(* toPlayers, affiliates.js:20-28 *)
toPlayers(raw) ==
    [i \in 1..Len(raw) |-> [id |-> raw[i].uuid, points |-> raw[i].wagered]]

(* fetchAffiliate after its request settles, affiliates.js:73-86:
   the value returned and the cache left behind *)
fetchAffiliateValue(resp) ==
    IF resp.status = 200 THEN toPlayers(PayloadOf(resp.body)) ELSE <<>>

fetchAffiliateCache(c, lt, resp, t) ==
    IF resp.status = 200
    THEN ttlSet(c, KeyOf(lt, "players"), toPlayers(PayloadOf(resp.body)), CACHE_MS, t)
    ELSE c

----------------------------------------------------------------------------
(* server.js helpers *)

NoFile == [updatedAt |-> Null, data |-> <<>>, exists |-> FALSE]

(* sortPlayers, server.js:99-103 *)
sortPlayers(list) == SortByPointsDesc(list)

isSane_Always(list) == TRUE

(* isSane, server.js:104-106 *)
isSane(list) == Len(list) > 0

(* the row written by appendHistorySnapshot, server.js:135-138;
   Object.fromEntries keeps the last pair of a repeated id *)
SnapshotRow(list, t) ==
    [ts |-> t,
     p  |-> [id \in {list[i].id : i \in 1..Len(list)} |->
                list[CHOOSE i \in 1..Len(list) :
                        /\ list[i].id = id
                        /\ \A j \in 1..Len(list) : list[j].id = id => j <= i].points]]

CacheContent_DropsDate(list, t) ==
    [updatedAt |-> Null, data |-> list, exists |-> TRUE]

(* the object written by saveCache, server.js:111 *)
CacheContent(list, t) == [updatedAt |-> t, data |-> list, exists |-> TRUE]

(* saveCache, server.js:108-116: the content goes to a temporary file that
   is renamed over CACHE_PATH; when a step fails the catch logs it and
   CACHE_PATH is as it was *)
saveCache_InPlace(file, list, t, ok) ==
    IF ok THEN CacheContent(list, t) ELSE [exists |-> TRUE, damage |-> "not-json"]

saveCache(file, list, t, ok) == IF ok THEN CacheContent(list, t) ELSE file

appendHistorySnapshot_Rewrites(file, list, t, ok) ==
    IF ok THEN <<SnapshotRow(list, t)>> ELSE file

(* appendHistorySnapshot, server.js:133-143: one row is appended; when the
   write fails the catch logs it and the log is as it was *)
appendHistorySnapshot(file, list, t, ok) ==
    IF ok THEN Append(file, SnapshotRow(list, t)) ELSE file

(* what appendHistorySnapshot tells its caller: it returns normally whether
   the write succeeded or not, server.js:140-142 *)
AppendReport(ok) == "returned"

(* the try block of refresh(), server.js:210-226: the fetch, the sort, the
   commit, both writes and the broadcast are inside it *)
CaughtByRefresh_NotEmit(step) ==
    step \in {"fetch", "sort", "replace", "persist", "append"}

CaughtByRefresh(step) ==
    step \in {"fetch", "sort", "replace", "persist", "append", "emit"}

(* server.js:205 *)
Frozen(end, t) == end # Null /\ t > end

----------------------------------------------------------------------------
(* Spec: the refresh loop *)

Cycles == 1..MaxCycles

IdleCycle == [pc |-> "idle", lt |-> Null, src |-> "none"]
NoFin     == [c |-> 0, outcome |-> "none", sorted |-> <<>>, ops |-> <<>>,
              cacheOk |-> TRUE, histOk |-> TRUE, emitOk |-> TRUE,
              appendSaid |-> "none", raised |-> FALSE]

(* the deadline the admin sets: it passes during the run *)
Deadlines == {0}

(* a cache file left by an earlier run of the server *)
OldCacheFiles == {NoFile, CacheContent(<<[id |-> "A", points |-> 1]>>, 0)}

(* a file at CACHE_PATH that cannot be read, holds no JSON, or holds JSON
   without an array in its data field *)
DamagedFiles ==
    {[exists |-> TRUE, damage |-> d] : d \in {"unreadable", "not-json", "no-array"}}

(* loadCacheIfAny, server.js:117-131: the file is taken over only when it
   exists, is read, parses, and Array.isArray(parsed?.data) *)
Loadable(file) == file.exists /\ "data" \in DOMAIN file

LoadedBoard_Sorted(file) == IF Loadable(file) THEN sortPlayers(file.data) ELSE <<>>

LoadedBoard(file) == IF Loadable(file) THEN file.data ELSE <<>>
LoadedAt(file, t) ==
    IF Loadable(file) THEN (IF file.updatedAt # Null THEN file.updatedAt ELSE t)
    ELSE Null

Init ==
    /\ now = 0
    /\ hasCreds \in Creds
    /\ countdownEnd \in {Null} \cup Deadlines
    /\ contestStart = Null
    /\ contestEnd = Null
    /\ cacheFile \in OldCacheFiles
    /\ leaderboard = LoadedBoard(cacheFile)
    /\ updatedAt = LoadedAt(cacheFile, now)
    /\ histFile = <<>>
    /\ emitted = <<>>
    /\ cyc = [c \in Cycles |-> IdleCycle]
    /\ started = 0
    /\ fin = NoFin
    /\ cache = <<>>
    /\ calls = <<>>
    /\ ret = <<>>
    /\ InitIdleQuery

(* time passes *)
Advance(limit) ==
    /\ now < limit
    /\ now' = now + 1
    /\ UNCHANGED <<hasCreds, histFile, cache, calls, ret, fin>>
    /\ UNCHANGED serverVars /\ UNCHANGED queryVars

(* POST /api/countdown, server.js:296-314 *)
PostCountdown(t) ==
    /\ countdownEnd' = t
    /\ UNCHANGED <<now, hasCreds, leaderboard, updatedAt, cacheFile, histFile,
                   emitted, cyc, started, fin, cache, calls, ret>>
    /\ UNCHANGED contestVars /\ UNCHANGED queryVars

(* refresh() after `await fetchAffiliate()` has produced players,
   server.js:212-226; cacheOk and histOk say whether the two file writes
   succeed (saveCache and appendHistorySnapshot swallow a failure), emitOk
   whether io.emit returns or throws (the catch of refresh() logs it) *)
AfterFetch(c, players, cacheOk, histOk, emitOk) ==
    LET sorted == sortPlayers(players) IN
    IF isSane(sorted)
    THEN /\ leaderboard' = sorted
         /\ updatedAt' = now
         /\ cacheFile' = saveCache(cacheFile, sorted, now, cacheOk)
         /\ histFile' = appendHistorySnapshot(histFile, sorted, now, histOk)
         /\ emitted' = IF emitOk THEN Append(emitted, sorted) ELSE emitted
         /\ fin' = [c |-> c, outcome |-> "updated", sorted |-> sorted,
                    ops |-> <<"replace",
                              IF cacheOk THEN "persist" ELSE "persist-failed",
                              IF histOk THEN "append" ELSE "append-failed",
                              IF emitOk THEN "emit" ELSE "emit-failed">>,
                    cacheOk |-> cacheOk, histOk |-> histOk, emitOk |-> emitOk,
                    appendSaid |-> AppendReport(histOk),
                    raised |-> ~emitOk /\ ~CaughtByRefresh("emit")]
    ELSE /\ UNCHANGED <<leaderboard, updatedAt, cacheFile, histFile, emitted>>
         /\ fin' = [NoFin EXCEPT !.c = c, !.outcome = "rejected", !.sorted = sorted]

(* refresh() from its entry to its first suspension, server.js:203-211 with
   affiliates.js:65-77.  A frozen cycle returns at once.  A cached value or
   missing credentials make fetchAffiliate return without a request, and the
   rest of refresh() runs in the same turn of the event loop.  Otherwise the
   request is issued and the cycle waits for its response. *)
RefreshStart(c, src) ==
    /\ c = started + 1
    /\ cyc[c].pc = "idle"
    /\ started' = c
    /\ UNCHANGED <<now, hasCreds, countdownEnd, calls, ret>>
    /\ UNCHANGED contestVars /\ UNCHANGED queryVars
    /\ IF Frozen(countdownEnd, now)
       THEN /\ cyc' = [cyc EXCEPT ![c] = [pc |-> "done", lt |-> Null, src |-> "none"]]
            /\ fin' = [NoFin EXCEPT !.c = c, !.outcome = "frozen"]
            /\ UNCHANGED <<leaderboard, updatedAt, cacheFile, histFile,
                           emitted, cache>>
       ELSE LET k == KeyOf(now, "players") IN
            IF ttlHit(cache, k, now)
            THEN /\ cyc' = [cyc EXCEPT ![c] = [pc |-> "done", lt |-> Null, src |-> "none"]]
                 /\ UNCHANGED cache
                 /\ \E cacheOk, histOk, emitOk \in BOOLEAN :
                       AfterFetch(c, cache[k].val, cacheOk, histOk, emitOk)
            ELSE IF CredsMissing(hasCreds)
            THEN /\ cyc' = [cyc EXCEPT ![c] = [pc |-> "done", lt |-> Null, src |-> "none"]]
                 /\ cache' = ttlGetCache(cache, k, now)
                 /\ AfterFetch(c, <<>>, TRUE, TRUE, TRUE)
            ELSE /\ cyc' = [cyc EXCEPT ![c] = [pc |-> "refreshing", lt |-> now, src |-> src]]
                 /\ cache' = ttlGetCache(cache, k, now)
                 /\ UNCHANGED <<leaderboard, updatedAt, cacheFile, histFile,
                                emitted, fin>>

(* cron.schedule(INTERVAL_CRON, refresh) and the warm-up timer,
   server.js:229-230 *)
CronTick(c) == RefreshStart(c, "cron")

(* POST /api/admin/refresh, server.js:376-379 *)
AdminRefresh(c) == RefreshStart(c, "admin")

RefreshSettle_RetriesFailure(c, resp) ==
    /\ cyc[c].pc = "refreshing"
    /\ IF resp.status # 200
       THEN /\ cyc' = [cyc EXCEPT ![c].lt = now]
            /\ UNCHANGED <<cache, leaderboard, updatedAt, cacheFile, histFile,
                           emitted, fin>>
       ELSE /\ cyc' = [cyc EXCEPT ![c] = [pc |-> "done", lt |-> Null, src |-> "none"]]
            /\ cache' = fetchAffiliateCache(cache, cyc[c].lt, resp, now)
            /\ \E cacheOk, histOk, emitOk \in BOOLEAN :
                  AfterFetch(c, fetchAffiliateValue(resp), cacheOk, histOk, emitOk)
    /\ UNCHANGED <<now, hasCreds, countdownEnd, started, calls, ret>>
    /\ UNCHANGED contestVars /\ UNCHANGED queryVars

(* the request of a waiting cycle settles: fetchAffiliate returns
   (affiliates.js:78-86) and refresh() runs to its end (server.js:212-227) *)
RefreshSettle(c, resp) ==
    /\ cyc[c].pc = "refreshing"
    /\ cyc' = [cyc EXCEPT ![c] = [pc |-> "done", lt |-> Null, src |-> "none"]]
    /\ cache' = fetchAffiliateCache(cache, cyc[c].lt, resp, now)
    /\ \E cacheOk, histOk, emitOk \in BOOLEAN :
          AfterFetch(c, fetchAffiliateValue(resp), cacheOk, histOk, emitOk)
    /\ UNCHANGED <<now, hasCreds, countdownEnd, started, calls, ret>>
    /\ UNCHANGED contestVars /\ UNCHANGED queryVars

(* fetchAffiliate has one catch for every failure (affiliates.js:83-86): a
   refresh cycle sees a failure, a 200 whose body is no list, or a 200 with
   a list of records *)
CycleResponses ==
    {r \in Responses : r.status \in {200, 503} /\ r.body.shape # "wrapped"}

Next ==
    \/ Advance(MaxTime)
    \/ \E t \in Deadlines : PostCountdown(t)
    \/ \E c \in Cycles : CronTick(c)
    \/ \E c \in Cycles : AdminRefresh(c)
    \/ \E c \in Cycles, resp \in CycleResponses : RefreshSettle(c, resp)

Spec == Init /\ [][Next]_vars

(* SpecLive: the refresh loop with the guarantee axios gives through
   timeout: 15000 (affiliates.js:72-76): the request of a waiting cycle
   settles, by a response or by the timeout error *)
InitLive ==
    /\ Init
    /\ hasCreds = [apikey |-> TRUE, code |-> TRUE]
    /\ cacheFile = NoFile

RequestsSettle ==
    \A c \in Cycles : WF_vars(\E resp \in CycleResponses : RefreshSettle(c, resp))

NextLive ==
    \/ Advance(MaxTime)
    \/ \E t \in Deadlines : PostCountdown(t)
    \/ \E c \in 1..MaxServeCycles : CronTick(c)
    \/ \E c \in 1..MaxServeCycles : AdminRefresh(c)
    \/ \E c \in 1..MaxServeCycles, resp \in CycleResponses : RefreshSettle(c, resp)

SpecLive == InitLive /\ [][NextLive]_vars /\ RequestsSettle


----------------------------------------------------------------------------
(* Claims about the refresh loop *)

DeadlinePassed == countdownEnd # Null /\ now > countdownEnd

CycleReturned == fin'.c # fin.c

Last(s) == s[Len(s)]

(* C3: once the countdown deadline has passed, no step appends a snapshot    *)
(* row or emits a leaderboard broadcast, whatever cycles are still waiting   *)
(* for their fetch                                                           *)
C3_FrozenAfterDeadline ==
    [][DeadlinePassed => (histFile' = histFile /\ emitted' = emitted)]_vars

(* C4: a cycle whose fetched and sorted result is empty changes neither the  *)
(* leaderboard, updatedAt, the cache file nor the snapshot log, emits no     *)
(* broadcast and does not raise                                              *)
C4_RejectedIsNoOp ==
    [][(CycleReturned /\ fin'.outcome # "frozen" /\ Len(fin'.sorted) = 0) =>
          /\ leaderboard' = leaderboard /\ updatedAt' = updatedAt
          /\ cacheFile' = cacheFile /\ histFile' = histFile
          /\ emitted' = emitted
          /\ ~fin'.raised]_vars

(* the second cycle was rejected after the first had committed *)
C4_Witness ==
    /\ fin.c = 2 /\ fin.outcome = "rejected"
    /\ Len(leaderboard) > 0 /\ updatedAt # Null
    /\ cacheFile.exists /\ Len(histFile) = 1 /\ Len(emitted) = 1

(* a broadcast is emitted only by a cycle that committed a sane result *)
EmitOnlyOnCommit ==
    emitted' # emitted =>
        /\ CycleReturned /\ Len(fin'.sorted) > 0
        /\ leaderboard' = fin'.sorted
        /\ emitted' = Append(emitted, leaderboard')

(* C5 as stated: every cycle with a sane result replaces the leaderboard,    *)
(* persists the cache file, appends exactly one snapshot row and emits       *)
(* exactly one broadcast carrying the committed leaderboard, in this order   *)
C5_CommitDoesAllFour ==
    [][/\ (CycleReturned /\ Len(fin'.sorted) > 0) =>
             /\ leaderboard' = fin'.sorted
             /\ cacheFile' = [updatedAt |-> updatedAt', data |-> leaderboard',
                              exists |-> TRUE]
             /\ Len(histFile') = Len(histFile) + 1
             /\ SubSeq(histFile', 1, Len(histFile)) = histFile
             /\ emitted' = Append(emitted, leaderboard')
             /\ fin'.ops = <<"replace", "persist", "append", "emit">>
       /\ EmitOnlyOnCommit]_vars

(* C5 amended: every cycle with a sane result replaces the leaderboard, then *)
(* attempts the cache-file write, then attempts the snapshot append, then    *)
(* attempts one broadcast carrying the committed leaderboard; the file is    *)
(* replaced, one row appended and one broadcast emitted exactly when the     *)
(* respective step succeeds, and a failed step stops none of the later steps *)
C5_CommitAttemptsInOrder ==
    [][/\ (CycleReturned /\ Len(fin'.sorted) > 0) =>
             /\ leaderboard' = fin'.sorted
             /\ Len(fin'.ops) = 4
             /\ fin'.ops[1] = "replace"
             /\ fin'.ops[2] = (IF fin'.cacheOk THEN "persist" ELSE "persist-failed")
             /\ fin'.ops[3] = (IF fin'.histOk THEN "append" ELSE "append-failed")
             /\ fin'.ops[4] = (IF fin'.emitOk THEN "emit" ELSE "emit-failed")
             /\ cacheFile' = (IF fin'.cacheOk
                              THEN [updatedAt |-> updatedAt', data |-> leaderboard',
                                    exists |-> TRUE]
                              ELSE cacheFile)
             /\ Len(histFile') = Len(histFile) + (IF fin'.histOk THEN 1 ELSE 0)
             /\ SubSeq(histFile', 1, Len(histFile)) = histFile
             /\ fin'.histOk =>
                   /\ Last(histFile').ts = now
                   /\ DOMAIN Last(histFile').p =
                         {leaderboard'[i].id : i \in 1..Len(leaderboard')}
                   /\ \A i \in 1..Len(leaderboard') :
                         Last(histFile').p[leaderboard'[i].id] = leaderboard'[i].points
             /\ emitted' = (IF fin'.emitOk THEN Append(emitted, leaderboard')
                            ELSE emitted)
       /\ EmitOnlyOnCommit]_vars

(* a cycle committed two players: file, row and broadcast all carry them *)
C5_Witness ==
    /\ fin.outcome = "updated" /\ fin.cacheOk /\ fin.histOk /\ fin.emitOk
    /\ Len(leaderboard) = 2 /\ leaderboard = fin.sorted
    /\ cacheFile.exists /\ cacheFile.data = leaderboard
    /\ Len(histFile) = 1 /\ DOMAIN Last(histFile).p = Ids
    /\ emitted = <<leaderboard>>

(* C6: a snapshot row is appended only after the cache-file write of the     *)
(* same cycle succeeded, so the row's leaderboard is the one in the cache    *)
(* file; a cycle whose cache-file write fails appends no row                 *)
C6_AppendOnlyAfterPersist ==
    [][/\ Len(histFile') > Len(histFile) =>
             /\ cacheFile'.exists
             /\ cacheFile'.data = leaderboard'
             /\ cacheFile'.updatedAt = Last(histFile').ts
       /\ (CycleReturned /\ ~fin'.cacheOk) => histFile' = histFile]_vars


----------------------------------------------------------------------------
(* SpecFetch: fetchAffiliate and fetchAffiliateRaw called directly *)

PlayerCalls == 1..MaxCalls
RawCalls    == (MaxCalls + 1)..(MaxCalls + MaxRawCalls)
CallIds     == PlayerCalls \cup RawCalls

(* what a call saw on the wire last: the status and, for a 200, the records
   the body carried *)
NoResp  == [status |-> Null, data |-> <<>>]
Seen(resp) == [status |-> resp.status,
               data |-> IF resp.body.shape = "other" THEN <<>> ELSE resp.body.data]

(* a call in flight: the function, its position, lt of its URL, the loop
   counter a of the raw path, the requests it issued, the status s of the
   response being handled, the statuses of the failed attempts and, while the
   call sleeps, the retry-after header ra of the failed response and the
   milliseconds passed to sleep *)
NewCall  == [fn |-> "none", pc |-> "new", lt |-> Null, a |-> 0, reqs |-> 0,
             s |-> Null, failed |-> {}, ra |-> Null, wait |-> 0]
DoneCall == [NewCall EXCEPT !.pc = "done"]

NoRet == [i |-> 0, fn |-> "none", lt |-> Null, a |-> 0, reqs |-> 0,
          failed |-> {}, result |-> <<>>, wire |-> NoResp, raised |-> FALSE]

(* call i returns value v after seeing w on the wire *)
Return(i, call, v, w) ==
    [i |-> i, fn |-> call.fn, lt |-> call.lt, a |-> call.a, reqs |-> call.reqs,
     failed |-> call.failed, result |-> v, wire |-> w, raised |-> FALSE]

Retryable_Any(s) == s # 200

(* affiliates.js:51-52 *)
Retryable(s) == s = 429 \/ (s >= 500 /\ s < 600)

(* the retry-after header of a failed response: none, or seconds *)
RetryAfters == {Null, MaxRetryAfter}

(* Math.floor(Math.random() * 250), affiliates.js:54: its least and its
   greatest value *)
Jitters == {0, JITTER_MS - 1}

Backoff_IgnoresRetryAfter(a, ra) ==
    Min(BACKOFF_CAP_MS, BACKOFF_BASE_MS * (2 ^ a))

(* affiliates.js:53 *)
Backoff(a, ra) ==
    IF ra # Null THEN ra * 1000 ELSE Min(BACKOFF_CAP_MS, BACKOFF_BASE_MS * (2 ^ a))

InitFetch ==
    /\ InitIdleServer
    /\ InitIdleQuery
    /\ histFile = <<>>
    /\ now = 0
    /\ hasCreds \in Creds
    /\ cache = <<>>
    /\ calls = [i \in CallIds |-> NewCall]
    /\ ret = NoRet

FetchFrame ==
    /\ UNCHANGED <<now, hasCreds, histFile>>
    /\ UNCHANGED serverVars /\ UNCHANGED fin /\ UNCHANGED queryVars

(* a fetch function from its entry to its first request,
   affiliates.js:32-41 and 66-74 *)
CallBegin(i, fn) ==
    LET k    == KeyOf(now, fn)
        call == [NewCall EXCEPT !.fn = fn, !.lt = now]
    IN
    /\ calls[i].pc = "new"
    /\ \A j \in (IF fn = "raw" THEN RawCalls ELSE PlayerCalls) :
          j < i => calls[j].pc # "new"
    /\ FetchFrame
    /\ IF ttlHit(cache, k, now)
       THEN /\ calls' = [calls EXCEPT ![i] = DoneCall]
            /\ ret' = Return(i, call, cache[k].val, NoResp)
            /\ UNCHANGED cache
       ELSE IF CredsMissing(hasCreds)
       THEN /\ calls' = [calls EXCEPT ![i] = DoneCall]
            /\ ret' = Return(i, call, <<>>, NoResp)
            /\ cache' = ttlGetCache(cache, k, now)
       ELSE /\ calls' = [calls EXCEPT ![i] =
                            [call EXCEPT !.pc = "awaiting", !.reqs = 1]]
            /\ cache' = ttlGetCache(cache, k, now)
            /\ UNCHANGED ret

CallPlayers(i) == CallBegin(i, "players")

(* GET /api/ids, server.js:382-384; the export is modelled one request at a
   time *)
CallRaw(i) ==
    /\ \A j \in RawCalls : calls[j].pc \in {"new", "done"}
    /\ CallBegin(i, "raw")

(* the request of fetchAffiliate settles, affiliates.js:78-86 *)
PlayersSettle(i, resp) ==
    /\ calls[i].fn = "players" /\ calls[i].pc = "awaiting"
    /\ FetchFrame
    /\ cache' = fetchAffiliateCache(cache, calls[i].lt, resp, now)
    /\ calls' = [calls EXCEPT ![i] = DoneCall]
    /\ ret' = Return(i, calls[i], fetchAffiliateValue(resp), Seen(resp))

(* a request of fetchAffiliateRaw settles, affiliates.js:41-59; ra is the
   retry-after header of a 429 or 5xx response, jitter the value drawn at
   affiliates.js:54 *)
RawSettle(i, resp, ra, jitter) ==
    /\ calls[i].fn = "raw" /\ calls[i].pc = "awaiting"
    /\ FetchFrame
    /\ IF resp.status = 200
       THEN /\ cache' = ttlSet(cache, KeyOf(calls[i].lt, "raw"),
                               PayloadOf(resp.body), CACHE_MS, now)
            /\ calls' = [calls EXCEPT ![i] = DoneCall]
            /\ ret' = Return(i, calls[i], PayloadOf(resp.body), Seen(resp))
       ELSE IF Retryable(resp.status)
       THEN /\ UNCHANGED <<cache, ret>>
            /\ calls' = [calls EXCEPT ![i].pc = "sleeping",
                                      ![i].s = resp.status,
                                      ![i].failed = @ \cup {resp.status},
                                      ![i].ra = ra,
                                      ![i].wait = Backoff(calls[i].a, ra) + jitter]
       ELSE /\ UNCHANGED cache
            /\ calls' = [calls EXCEPT ![i] = DoneCall]
            /\ ret' = Return(i, calls[i], <<>>, Seen(resp))

(* sleep(base + jitter) is over: `continue`, a++, and either the next
   request or the end of the loop, affiliates.js:39, 56-57, 62 *)
RawWake(i) ==
    /\ calls[i].fn = "raw" /\ calls[i].pc = "sleeping"
    /\ FetchFrame
    /\ UNCHANGED cache
    /\ IF calls[i].a + 1 < MaxAttempts
       THEN /\ calls' = [calls EXCEPT ![i].pc = "awaiting",
                                      ![i].a = @ + 1,
                                      ![i].reqs = @ + 1,
                                      ![i].ra = Null,
                                      ![i].wait = 0]
            /\ UNCHANGED ret
       ELSE /\ calls' = [calls EXCEPT ![i] = DoneCall]
            /\ ret' = Return(i, [calls[i] EXCEPT !.a = @ + 1], <<>>, NoResp)

NextFetch ==
    \/ Advance(MaxFetchTime)
    \/ \E i \in PlayerCalls : CallPlayers(i)
    \/ \E i \in RawCalls : CallRaw(i)
    \/ \E i \in CallIds, resp \in Responses : PlayersSettle(i, resp)
    \/ \E i \in CallIds, resp \in Responses : RawSettle(i, resp, Null, 0)
    \/ \E i \in CallIds : RawWake(i)

SpecFetch == InitFetch /\ [][NextFetch]_vars

(* SpecBackoff: fetchAffiliateRaw alone, with every retry-after header and
   jitter *)
InitBackoff ==
    /\ InitFetch
    /\ hasCreds = [apikey |-> TRUE, code |-> TRUE]

NextBackoff ==
    \/ Advance(MaxFetchTime)
    \/ \E i \in RawCalls : CallRaw(i)
    \/ \E i \in RawCalls, resp \in Responses, ra \in RetryAfters,
          jitter \in Jitters : RawSettle(i, resp, ra, jitter)
    \/ \E i \in RawCalls : RawWake(i)

SpecBackoff == InitBackoff /\ [][NextBackoff]_vars


----------------------------------------------------------------------------
(* Claims about the fetch client *)

Returns(i) == ret'.i = i /\ ret.i # i

InFlightPlayers == {i \in PlayerCalls : calls[i].pc = "awaiting"}

(* C7: after a successful fetchAffiliate call, a second call made before the *)
(* time-to-live has elapsed issues no request and returns the same result    *)
C7_SecondCallServedFromCache ==
    [][\A i \in PlayerCalls :
          (/\ calls[i].pc = "new" /\ calls'[i].pc # "new"
           /\ ret.fn = "players" /\ ret.wire.status = 200
           /\ now - ret.lt < CACHE_MS) =>
             /\ Returns(i)
             /\ ret'.reqs = 0
             /\ ret'.result = ret.result]_vars

(* C8: fetch calls that overlap within one TTL window issue at most two      *)
(* requests between them                                                     *)
C8_AtMostOneDuplicate ==
    (\A i, j \in InFlightPlayers : calls[i].lt - calls[j].lt < CACHE_MS) =>
        Cardinality({i \in InFlightPlayers : calls[i].reqs >= 1}) <= 2

RetryableStatus(st) == st = 429 \/ st \in 500..599

(* C9: on the raw path a 429 or 5xx response is retried, a call issues at    *)
(* most 5 requests, and the first successful response ends the call with its *)
(* payload and without a further request                                     *)
C9_RawRetry ==
    /\ [](/\ \A i \in RawCalls : calls[i].reqs <= 5
          /\ ret.fn = "raw" => ret.reqs <= 5)
    /\ [][\A i \in RawCalls :
            /\ (calls[i].pc = "awaiting" /\ calls'[i].pc = "sleeping") =>
                  /\ RetryableStatus(calls'[i].s)
                  /\ calls'[i].reqs = calls[i].reqs
            /\ (calls[i].pc = "awaiting" /\ Returns(i)) =>
                  /\ ~RetryableStatus(ret'.wire.status)
                  /\ ret'.reqs = calls[i].reqs
                  /\ ret'.reqs = calls[i].a + 1
                  /\ ret'.wire.status = 200 => ret'.result = ret'.wire.data
            /\ (calls[i].pc = "sleeping" /\ calls[i].a < 4) =>
                  \/ calls'[i] = calls[i]
                  \/ /\ calls'[i].pc = "awaiting"
                     /\ calls'[i].reqs = calls[i].reqs + 1
            /\ calls[i].pc = "done" => calls'[i] = calls[i]]_vars

(* three 503 responses, then a 200: four requests and the 200's records *)
C9_Witness ==
    /\ ret.fn = "raw" /\ ret.failed = {503} /\ ret.a = 3
    /\ ret.wire.status = 200 /\ Len(ret.wire.data) > 0
    /\ ret.reqs = 4 /\ ret.result = ret.wire.data

(* C10: neither fetch function raises; on the raw path a failure that is not *)
(* 429/5xx ends the call with an empty sequence and no retry (one request    *)
(* when it is the first response), and so does the fifth retryable failure;  *)
(* fetchAffiliate returns an empty sequence after its single request on any  *)
(* failure, whatever the status                                              *)
C10_FailuresYieldEmpty ==
    /\ [](~ret.raised)
    /\ [][/\ \A i \in RawCalls :
               /\ (calls[i].pc = "awaiting" /\ calls'[i].pc = "sleeping") =>
                     RetryableStatus(calls'[i].s)
               /\ (calls[i].pc = "awaiting" /\ Returns(i)
                     /\ ret'.wire.status # 200) =>
                     /\ ret'.result = <<>>
                     /\ ret'.reqs = calls[i].reqs
                     /\ calls[i].a = 0 => ret'.reqs = 1
                     /\ calls'[i].pc = "done"
               /\ (calls[i].pc = "sleeping" /\ calls[i].a = 4
                     /\ calls'[i] # calls[i]) =>
                     /\ Returns(i)
                     /\ ret'.result = <<>>
                     /\ ret'.reqs = 5
                     /\ calls'[i].pc = "done"
          /\ \A i \in PlayerCalls :
               (calls[i].pc = "awaiting" /\ calls'[i] # calls[i]) =>
                     /\ Returns(i)
                     /\ calls'[i].pc = "done"
                     /\ ret'.reqs = 1
                     /\ ret'.wire.status # 200 => ret'.result = <<>>]_vars

(* fetchAffiliate got a 503: one request, an empty result, no retry *)
C10_Witness ==
    /\ ret.fn = "players" /\ ret.wire.status = 503
    /\ ret.reqs = 1 /\ ret.result = <<>> /\ ~ret.raised


(* C11: when the API key or the partner code is missing, every call of       *)
(* either fetch function returns an empty sequence without a request         *)
C11_NoCredsNoRequest ==
    /\ []((~hasCreds.apikey \/ ~hasCreds.code) =>
             \A i \in CallIds : calls[i].reqs = 0 /\ calls[i].pc \in {"new", "done"})
    /\ [][(~hasCreds.apikey \/ ~hasCreds.code) =>
             \A i \in CallIds : calls'[i] # calls[i] =>
                 /\ Returns(i)
                 /\ ret'.result = <<>>
                 /\ ret'.reqs = 0
                 /\ ~ret'.raised]_vars

(* the key is set, the code is not: a fetchAffiliate call and then a         *)
(* fetchAffiliateRaw call have returned empty without a request              *)
C11_Witness ==
    /\ hasCreds.apikey /\ ~hasCreds.code
    /\ calls[1].pc = "done"
    /\ ret.fn = "raw" /\ ret.result = <<>> /\ ret.reqs = 0


----------------------------------------------------------------------------
(* SpecLog: the snapshot log grows line by line and is replayed *)

(* the leaderboards a refresh cycle commits and hands to
   appendHistorySnapshot, server.js:213-218 *)
SaneBoards ==
    {sortPlayers(toPlayers(d)) : d \in {u \in UpstreamData : Len(u) > 0}}

RowCount(file) == Cardinality({i \in 1..Len(file) : IsRow(file[i])})

InitLog ==
    /\ InitIdleServer
    /\ InitIdleFetch
    /\ InitIdleQuery
    /\ histFile = <<>>

LogFrame ==
    /\ UNCHANGED <<now, hasCreds, fin, cache, calls, ret>>
    /\ UNCHANGED serverVars

(* appendHistorySnapshot(list) whose write succeeds, server.js:133-139;
   t is Date.now(), which the system clock may set back between two calls *)
AppendSnapshot(list, t) ==
    /\ RowCount(histFile) < MaxLen
    /\ histFile' = Append(histFile, SnapshotRow(list, t))
    /\ LogFrame /\ UNCHANGED queryVars

(* a line that appendHistorySnapshot did not complete, or that was put into
   the file by other means, ends the file *)
DamageTail(line) ==
    /\ Len(histFile) - RowCount(histFile) < MaxBadLines
    /\ histFile' = Append(histFile, line)
    /\ LogFrame /\ UNCHANGED queryVars

(* a call of readHistory(), server.js:145-153 *)
ReadHistory ==
    /\ ~qDone
    /\ qStart' = Null /\ qEnd' = Null
    /\ threw' = readHistoryThrows(histFile)
    /\ qResult' = IF readHistoryThrows(histFile) THEN <<>> ELSE readHistory(histFile)
    /\ qOp' = "readHistory"
    /\ qDone' = TRUE
    /\ LogFrame /\ UNCHANGED histFile

NextLog ==
    \/ \E list \in SaneBoards, t \in 0..MaxTs : AppendSnapshot(list, t)
    \/ \E line \in {GarbageLine, NullLine} : DamageTail(line)
    \/ ReadHistory
    \/ \E s, e \in 0..MaxTs : RangeQuery(s, e)
    \/ RangeRespond

SpecLog == InitLog /\ [][NextLog]_vars

RowsOf(file) == SelectSeq(file, IsRow)
Occurrences(seq, x) == Cardinality({i \in 1..Len(seq) : seq[i] = x})
Unparsable(line) == line = [text |-> "garbage"]

C13_ReplayNeverAborts ==
    [][~qDone /\ qDone' =>
          /\ ~threw'
          /\ qOp' = "readHistory" => qResult' = SortByTs(RowsOf(histFile))
          /\ qOp' = "range" =>
                qResult' = computeWindowed(RowsOf(histFile), qStart', qEnd')]_vars


----------------------------------------------------------------------------
(* Claims about failures inside a refresh cycle *)

(* C14: an append whose write to the snapshot log fails is reported to its   *)
(* caller as a failure, never as a success                                   *)
C14_FailedAppendReported ==
    [][(CycleReturned /\ fin'.outcome = "updated") =>
          /\ ~fin'.histOk => fin'.appendSaid = "raised"
          /\ fin'.appendSaid = "returned" => histFile' # histFile]_vars

(* C15: when the cache-file write of a cycle with a sane result fails, the   *)
(* leaderboard and updatedAt are replaced all the same, the cache file keeps *)
(* its previous content and nothing is raised                                *)
C15_CacheWriteFailureAbsorbed ==
    [][(CycleReturned /\ Len(fin'.sorted) > 0 /\ ~fin'.cacheOk) =>
          /\ leaderboard' = fin'.sorted
          /\ updatedAt' = now
          /\ cacheFile' = cacheFile
          /\ ~fin'.raised]_vars

(* the write failed over an existing cache file: memory holds the new        *)
(* leaderboard, the file still the old one                                   *)
C15_Witness ==
    /\ fin.outcome = "updated" /\ ~fin.cacheOk
    /\ leaderboard = fin.sorted /\ updatedAt = now
    /\ cacheFile.exists /\ cacheFile.data # leaderboard
    /\ cacheFile.updatedAt # updatedAt

(* C16: no refresh cycle lets an exception out to its caller, whichever of   *)
(* the fetch, the cache-file write, the snapshot append and the broadcast    *)
(* fail                                                                      *)
C16_RefreshNeverRaises ==
    [][CycleReturned =>
          /\ ~fin'.raised
          /\ cyc'[fin'.c].pc = "done"]_vars

(* a cycle in which both writes and the broadcast failed has returned *)
C16_Witness ==
    /\ fin.outcome = "updated"
    /\ ~fin.cacheOk /\ ~fin.histOk /\ ~fin.emitOk
    /\ fin.ops = <<"replace", "persist-failed", "append-failed", "emit-failed">>
    /\ ~fin.raised


----------------------------------------------------------------------------
(* SpecServe: the server from startup, with the contest window and the read
   endpoints *)

(* what CACHE_PATH holds when the server starts: nothing, a damaged file, a
   file an earlier run wrote, or a file whose data array is in no order and
   which has no updatedAt *)
BootFiles ==
    {NoFile} \cup DamagedFiles
    \cup {CacheContent(<<[id |-> "A", points |-> 1]>>, 0),
          [updatedAt |-> Null,
           data |-> <<[id |-> "A", points |-> 0], [id |-> "B", points |-> 1]>>,
           exists |-> TRUE]}

(* the snapshot log an earlier run left: one row, both users at 0 *)
OldLog ==
    <<SnapshotRow(<<[id |-> "A", points |-> 0], [id |-> "B", points |-> 0]>>, 0)>>

InitServe ==
    /\ now = 0
    /\ hasCreds = [apikey |-> TRUE, code |-> TRUE]
    /\ countdownEnd = Null
    /\ contestStart = Null
    /\ contestEnd = Null
    /\ cacheFile \in BootFiles
    /\ leaderboard = LoadedBoard(cacheFile)
    /\ updatedAt = LoadedAt(cacheFile, now)
    /\ histFile = OldLog
    /\ emitted = <<>>
    /\ cyc = [c \in Cycles |-> IdleCycle]
    /\ started = 0
    /\ fin = NoFin
    /\ cache = <<>>
    /\ calls = <<>>
    /\ ret = <<>>
    /\ InitIdleQuery

(* the start and end an admin posts: nothing (or any falsy value), a time,
   or text that is no date *)
Absent  == Null
Invalid == -2
StartInputs == {Absent, Invalid, 0, MaxTime}
EndInputs   == {Absent, Invalid, 0}

ServeFrame ==
    UNCHANGED <<now, hasCreds, countdownEnd, leaderboard, updatedAt, cacheFile,
                histFile, emitted, cyc, started, fin, cache, calls, ret>>

(* POST /api/contest, server.js:276-281; new Date(x).toISOString() throws a
   RangeError for text that is no date, which ends the handler at that
   line: a start already assigned stays assigned *)
PostContest(start, end) ==
    /\ contestStart' = IF start = Invalid THEN contestStart
                       ELSE IF start = Absent THEN Null ELSE start
    /\ contestEnd' = IF start = Invalid \/ end = Invalid THEN contestEnd
                     ELSE IF end = Absent THEN Null ELSE end
    /\ ServeFrame /\ UNCHANGED queryVars

UseWindow_StartOnly(cs, ce) == cs # Null

(* server.js:239-241: both bounds set, both parse, and e >= s *)
UseWindow(cs, ce) == cs # Null /\ ce # Null /\ ce >= cs

GetLeaderboard_KeepsResult ==
    /\ ~qDone
    /\ qOp' = "leaderboard"
    /\ qDone' = TRUE
    /\ IF UseWindow(contestStart, contestEnd)
       THEN /\ qStart' = contestStart /\ qEnd' = contestEnd
            /\ qResult' = WindowedOrNothing(histFile, contestStart, contestEnd)
            /\ threw' = computeWindowedThrows(histFile)
       ELSE /\ qStart' = Null /\ qEnd' = Null
            /\ qResult' = leaderboard
            /\ threw' = FALSE
    /\ leaderboard' = qResult'
    /\ UNCHANGED <<now, hasCreds, countdownEnd, updatedAt, cacheFile,
                   histFile, emitted, cyc, started, fin, cache, calls, ret>>
    /\ UNCHANGED contestVars

(* GET /api/leaderboard, server.js:238-246 *)
GetLeaderboard ==
    /\ ~qDone
    /\ qOp' = "leaderboard"
    /\ qDone' = TRUE
    /\ IF UseWindow(contestStart, contestEnd)
       THEN /\ qStart' = contestStart /\ qEnd' = contestEnd
            /\ qResult' = WindowedOrNothing(histFile, contestStart, contestEnd)
            /\ threw' = computeWindowedThrows(histFile)
       ELSE /\ qStart' = Null /\ qEnd' = Null
            /\ qResult' = leaderboard
            /\ threw' = FALSE
    /\ ServeFrame /\ UNCHANGED contestVars

NextServe ==
    \/ Advance(MaxTime)
    \/ \E c \in 1..MaxServeCycles : CronTick(c)
    \/ \E c \in 1..MaxServeCycles : AdminRefresh(c)
    \/ \E c \in 1..MaxServeCycles, resp \in CycleResponses : RefreshSettle(c, resp)
    \/ \E start \in StartInputs, end \in EndInputs : PostContest(start, end)
    \/ GetLeaderboard
    \/ RangeRespond

SpecServe == InitServe /\ [][NextServe]_vars


----------------------------------------------------------------------------
(* Claims about startup, the contest window and the read endpoints *)

BeforeFirstCycle == started = 0

(* C17: after startup, with a cache file that is missing, unreadable, no     *)
(* JSON or without an array in data, the leaderboard is empty and updatedAt  *)
(* is null; with an array in data the leaderboard is exactly that array      *)
C17_StartupLoad ==
    BeforeFirstCycle =>
        IF cacheFile.exists /\ "data" \in DOMAIN cacheFile
        THEN leaderboard = cacheFile.data
        ELSE leaderboard = <<>> /\ updatedAt = Null

(* the file holds an array in ascending order and no updatedAt: the          *)
(* leaderboard is that array as it stands                                    *)
C17_Witness ==
    /\ BeforeFirstCycle /\ now > 0
    /\ cacheFile.exists /\ "data" \in DOMAIN cacheFile
    /\ Len(cacheFile.data) = 2
    /\ cacheFile.data[1].points < cacheFile.data[2].points
    /\ leaderboard = cacheFile.data
    /\ updatedAt # Null

LeaderboardRead == ~qDone /\ qDone' /\ qOp' = "leaderboard"

(* C18: GET /api/leaderboard returns the live leaderboard whenever start or  *)
(* end of the contest window is null, and computeWindowed(start, end)        *)
(* whenever both are set with end >= start; the read changes neither the     *)
(* leaderboard nor the contest window                                        *)
C18_LeaderboardEndpoint ==
    [][LeaderboardRead =>
          /\ (contestStart = Null \/ contestEnd = Null) =>
                qResult' = leaderboard /\ qStart' = Null /\ ~threw'
          /\ (contestStart # Null /\ contestEnd # Null /\ contestEnd >= contestStart) =>
                /\ qResult' = computeWindowed(histFile, contestStart, contestEnd)
                /\ qStart' = contestStart /\ qEnd' = contestEnd
          /\ leaderboard' = leaderboard
          /\ contestStart' = contestStart /\ contestEnd' = contestEnd]_vars

(* with the window [0, 0] set, the read returned the gains inside it, which  *)
(* differ from the live leaderboard                                          *)
C18_Witness ==
    /\ qDone /\ qOp = "leaderboard"
    /\ contestStart = 0 /\ contestEnd = 0 /\ qStart = 0 /\ qEnd = 0
    /\ Len(qResult) > 0 /\ qResult # leaderboard
    /\ qResult = computeWindowed(histFile, 0, 0)

Committed ==
    /\ CycleReturned /\ Len(fin'.sorted) > 0
    /\ leaderboard' = fin'.sorted /\ updatedAt' = now

(* C19 as stated: the refresh cycle is the sole writer of the leaderboard    *)
(* and of the contest window; no read changes either, and a reader keeps     *)
(* the sequence it obtained when a later refresh commits                     *)
C19_RefreshSoleWriter ==
    [][/\ (leaderboard' # leaderboard \/ updatedAt' # updatedAt) => Committed
       /\ (contestStart' # contestStart \/ contestEnd' # contestEnd) => CycleReturned
       /\ (qDone /\ qDone') => qResult' = qResult]_vars

(* C19 amended: after startup the refresh cycle is the sole writer of the    *)
(* leaderboard, which it replaces together with updatedAt in one step; the   *)
(* contest window is written by POST /api/contest alone, never by a refresh  *)
(* cycle; no read changes either, and a reader keeps the sequence it         *)
(* obtained when a later refresh commits                                     *)
C19_WritersAndReaders ==
    [][/\ (leaderboard' # leaderboard \/ updatedAt' # updatedAt) => Committed
       /\ (contestStart' # contestStart \/ contestEnd' # contestEnd) =>
             /\ ~CycleReturned /\ cyc' = cyc /\ started' = started
             /\ leaderboard' = leaderboard /\ updatedAt' = updatedAt
             /\ qDone' = qDone /\ qResult' = qResult
       /\ (qDone' # qDone \/ qResult' # qResult) =>
             /\ leaderboard' = leaderboard /\ updatedAt' = updatedAt
             /\ contestStart' = contestStart /\ contestEnd' = contestEnd
       /\ (qDone /\ qDone') => qResult' = qResult]_vars

(* a reader holds the leaderboard loaded at startup; a refresh has since     *)
(* committed another one, and the admin has set the window                   *)
C19_Witness ==
    /\ qDone /\ qOp = "leaderboard" /\ qStart = Null
    /\ Len(qResult) > 0 /\ qResult # leaderboard
    /\ fin.outcome = "updated" /\ leaderboard = fin.sorted
    /\ contestStart # Null


----------------------------------------------------------------------------
(* Claims about the order of a windowed result *)

(* C20: in the sequence computeWindowed returns, every entry has at least    *)
(* the points of the entry that follows it                                   *)
C20_WindowedSortedDesc ==
    (qDone /\ qOp = "range") =>
        \A i \in 1..Len(qResult) :
            i < Len(qResult) => qResult[i].points >= qResult[i + 1].points

(* the second user of the log gained more than the first and comes first *)
C20_Witness ==
    /\ qDone /\ qOp = "range"
    /\ Len(qResult) = 2
    /\ qResult[1].id = "B" /\ qResult[2].id = "A"
    /\ qResult[1].points > qResult[2].points
    /\ \A i \in 1..Len(histFile) : DOMAIN histFile[i].p = Ids


----------------------------------------------------------------------------
(* Claims about the leaderboard as a whole *)

----------------------------------------------------------------------------
(* Claims about the backoff of the raw path *)

(* C22: after failed attempt a the raw path waits min(15000, 600 * 2^a) ms   *)
(* plus a jitter of 0 to 250 ms when the response has no retry-after, and    *)
(* retry-after seconds * 1000 ms plus the jitter when it has; it does not    *)
(* wait after a success or after an error that is not retried                *)
C22_BackoffWait ==
    [][\A i \in RawCalls :
          /\ (calls[i].pc = "awaiting" /\ calls'[i].pc = "sleeping") =>
                LET base == IF calls'[i].ra = Null
                            THEN (IF 600 * (2 ^ calls[i].a) < 15000
                                  THEN 600 * (2 ^ calls[i].a) ELSE 15000)
                            ELSE calls'[i].ra * 1000
                IN  calls'[i].wait - base \in 0..250
          /\ (calls[i].pc = "awaiting" /\ calls'[i].pc # "sleeping") =>
                calls'[i].wait = 0
          /\ calls'[i].wait # 0 => calls'[i].pc = "sleeping"]_vars

(* the third attempt failed without a retry-after: 2400 ms and the largest   *)
(* jitter; the attempt before it was told to wait two seconds or not at all  *)
C22_Witness ==
    \E i \in RawCalls :
        /\ calls[i].pc = "sleeping" /\ calls[i].a = 2
        /\ calls[i].ra = Null /\ calls[i].wait = 2400 + 249


----------------------------------------------------------------------------
(* Claims about the life of a refresh cycle *)

(* C23: every refresh cycle that starts finishes, given that each request    *)
(* answers or times out; a cycle issues at most one fetch request and does   *)
(* not fetch again after a failure                                           *)
C23_CycleFinishes ==
    /\ \A c \in Cycles : (cyc[c].pc = "refreshing") ~> (cyc[c].pc = "done")
    /\ [][\A c \in Cycles :
            /\ cyc'[c].pc = "idle" => cyc[c].pc = "idle"
            /\ cyc[c].pc = "done" => cyc'[c] = cyc[c]
            /\ (cyc[c].pc = "refreshing" /\ cyc'[c] # cyc[c]) =>
                  /\ cyc'[c].pc = "done"
                  /\ fin'.c = c /\ fin'.outcome \in {"updated", "rejected"}
            /\ (cyc[c].pc = "idle" /\ cyc'[c].pc = "refreshing") =>
                  cyc'[c].lt = now]_vars

(* an admin refresh got a failure and finished rejected, the leaderboard     *)
(* still empty, and no further request is pending                            *)
C23_Witness ==
    /\ fin.c = 1 /\ fin.outcome = "rejected" /\ Len(fin.sorted) = 0
    /\ cyc[1].pc = "done" /\ started = 1
    /\ leaderboard = <<>> /\ histFile = <<>>
    /\ \A c \in Cycles : cyc[c].pc # "refreshing"


----------------------------------------------------------------------------
(* Claims about the snapshot log under the running server *)

----------------------------------------------------------------------------
(* Claims about overlapping refresh cycles *)

(* C25: when refresh cycles overlap, a cycle whose fetch was issued earlier  *)
(* never commits over the leaderboard committed by a cycle whose fetch was   *)
(* issued later (cycles are numbered in the order they start)                *)
C25_LaterFetchWins ==
    [][(/\ CycleReturned
        /\ fin'.outcome = "updated" /\ fin.outcome = "updated"
        /\ fin'.c < fin.c)
          => leaderboard' = leaderboard]_vars


(* C26: a non-empty leaderboard always has an updatedAt, and once the        *)
(* leaderboard is non-empty no step empties it again or sets updatedAt back  *)
(* to null                                                                   *)
C26_NeverEmptiedAgain ==
    /\ [](Len(leaderboard) > 0 => updatedAt # Null)
    /\ [][Len(leaderboard) > 0 =>
            (Len(leaderboard') > 0 /\ updatedAt' # Null)]_vars

(* the first cycle committed a list, the second ran after the deadline and   *)
(* left it in place                                                          *)
C26_Witness ==
    /\ fin.c = 2 /\ fin.outcome = "frozen"
    /\ Len(histFile) = 1 /\ Len(emitted) = 1
    /\ Len(leaderboard) > 0 /\ updatedAt # Null


----------------------------------------------------------------------------
(* SpecExtend: computeWindowed over logs of one user, long enough to hold a  *)
(* row before the window, a row inside it and a row past its end             *)

ExtendRowP == UNION {[D -> 0..MaxPts] : D \in SUBSET {"A"}}
ExtendRows == [ts : 0..MaxTs, p : ExtendRowP]
ExtendLogs == UNION {[1..n -> ExtendRows] : n \in 0..MaxExtendLen}

InitExtend ==
    /\ InitIdleServer
    /\ InitIdleFetch
    /\ InitIdleQuery
    /\ histFile \in ExtendLogs

NextExtend ==
    \/ \E s, e \in 0..MaxTs : RangeQuery(s, e)
    \/ RangeRespond

SpecExtend == InitExtend /\ [][NextExtend]_vars

(* what computeWindowed returns for the same log and start and the end e2 *)
Wider(e2) == computeWindowed(histFile, qStart, e2)

(* C27: for a fixed log and start, every user returned for the window end    *)
(* end1 is also returned for every end2 >= end1, with points greater than    *)
(* or equal to those reported for end1                                       *)
C27_ExtendingEndNeverLowers ==
    (qDone /\ qOp = "range" /\ ~threw) =>
        \A e2 \in qEnd..MaxTs :
            \A i \in 1..Len(qResult) :
                \E j \in 1..Len(Wider(e2)) :
                    /\ Wider(e2)[j].id = qResult[i].id
                    /\ Wider(e2)[j].points >= qResult[i].points

(* a user is returned for end1 and a later end reports strictly more points *)
C27_Witness ==
    /\ qDone /\ qOp = "range" /\ ~threw
    /\ Len(histFile) = 3
    /\ Len(qResult) = 1
    /\ \E e2 \in (qEnd + 1)..MaxTs :
          /\ Len(Wider(e2)) = 1
          /\ Wider(e2)[1].id = qResult[1].id
          /\ Wider(e2)[1].points > qResult[1].points

====
